---- MODULE Spec2Model ----
(***************************************************************************)
(* A model of the XCTest functional-test line checker                      *)
(* (Tests/Functional/xctest_checker/xctest_checker/compare.py) and of the  *)
(* subcommand defaulting of build_script.py's main().                      *)
(*                                                                         *)
(* Text is modelled as sequences of one-character strings.  A "line" is    *)
(* what Python's file iteration yields: the characters of the line         *)
(* INCLUDING its terminating newline; only the last line of a file may     *)
(* lack the terminator.                                                    *)
(***************************************************************************)
EXTENDS Naturals, Sequences, FiniteSets

VARIABLES
    actual,            \* contents of the file at path 'actual': Seq of lines
    expected,          \* contents of the file at path 'expected': Seq of lines
    check_prefix,      \* the check_prefix argument
    actual_readable,   \* whether open(actual) succeeds
    expected_readable, \* whether open(expected) succeeds
    actual_f,          \* file object of _actual_lines: "unopened"/"open"/"closed"
    expected_f,        \* file object of _expected_lines
    actual_pos,        \* number of lines read from actual
    expected_pos,      \* number of lines read from expected
    actual_stop,       \* map() saw StopIteration from _actual_lines
    expected_stop,     \* map() saw StopIteration from _expected_lines
    item,              \* the item map() holds from _actual_lines in this round
    pairs,             \* the list map(None, ...) has built so far
    idx,               \* 1-based position of the for loop in pairs
    pc,                \* control point of compare
    outcome,           \* how compare ended
    err_actual,        \* repr(actual_line) carried by the AssertionError
    err_expected,      \* repr(expected_line) carried by the AssertionError
    args,              \* main(): the argument list
    parsed_argv,       \* main(): the list handed to parser.parse_args
    func,              \* main(): the function dispatched
    exit,              \* main(): how argparse ended the process, if it did
    mpc                \* control point of main

cmpvars == <<actual, expected, check_prefix, actual_readable, expected_readable,
             actual_f, expected_f, actual_pos, expected_pos, actual_stop,
             expected_stop, item, pairs, idx, pc, outcome, err_actual,
             err_expected>>
mainvars == <<args, parsed_argv, func, exit, mpc>>
vars == <<cmpvars, mainvars>>

----------------------------------------------------------------------------
(* Bounds of the model *)

MaxActualLines == 2
MaxExpectedLines == 3
MaxArgs == 4

----------------------------------------------------------------------------
(* Text *)

NL == "\n"

\* Python's None, as map(None, ...) pads the shorter sequence with it.  No
\* line of a file equals it.
None == <<"None">>

\* All sequences over S of length at most n.
SeqUpTo(S, n) == UNION {[1..k -> S] : k \in 0..n}

\* A file's lines as 'for line in f' yields them: every line is non-empty
\* and every line but the last ends with the newline.
IsFile(lines) ==
    \A i \in 1..Len(lines) :
        /\ Len(lines[i]) > 0
        /\ (i < Len(lines) => lines[i][Len(lines[i])] = NL)

\* Lines an actual-output file is drawn from.
ActualLineSet ==
    { <<"a", NL>>, <<"a", "b", NL>>, <<NL>>, <<"a">> }

\* Lines an expectation file is drawn from.
ExpectedLineSet ==
    { <<"#", NL>>, <<"#", "a", NL>>, <<"#", ".", "+", NL>>, <<"#", "+", NL>>,
      <<" ", "#", "a", NL>>, <<"#">>, <<"#", "a">> }

CheckPrefixes == { <<"#">>, <<"#", "a">> }

\* A startswith that first strips leading blanks from the line.
StartsWithStripped(line, prefix) ==
    LET B == {k \in 1..Len(line) : line[k] # " "}
        first == IF B = {} THEN Len(line) + 1
                 ELSE CHOOSE k \in B : \A m \in B : k <= m
        rest == SubSeq(line, first, Len(line))
    IN  /\ Len(rest) >= Len(prefix)
        /\ \A k \in 1..Len(prefix) : rest[k] = prefix[k]

\* str.startswith
StartsWith(line, prefix) ==
    /\ Len(line) >= Len(prefix)
    /\ \A k \in 1..Len(prefix) : line[k] = prefix[k]

\* A slice that also drops the line terminator.
StripPrefixAndNewline(line, prefix) ==
    IF Len(line) > Len(prefix) /\ line[Len(line)] = NL
    THEN SubSeq(line, Len(prefix) + 1, Len(line) - 1)
    ELSE SubSeq(line, Len(prefix) + 1, Len(line))

\* line[len(check_prefix):]
StripPrefix(line, prefix) == SubSeq(line, Len(prefix) + 1, Len(line))

----------------------------------------------------------------------------
(* re.match, for the patterns of this alphabet: a literal character, '.'   *)
(* (any character but the newline) and the postfix '+' (one or more).      *)

\* re.compile succeeds: '+' needs something to repeat ("nothing to repeat")
\* and cannot follow another '+' ("multiple repeat").
ReCompiles(pattern) ==
    \A k \in 1..Len(pattern) :
        pattern[k] = "+" => (k > 1 /\ pattern[k - 1] # "+")

AtomMatches(atom, c) == IF atom = "." THEN c # NL ELSE c = atom

\* Whether pattern[i..] matches string starting at position j (the match may
\* end anywhere: re.match anchors the start only).
RECURSIVE MatchFrom(_, _, _, _)
MatchFrom(pattern, i, string, j) ==
    IF i > Len(pattern) THEN TRUE
    ELSE IF j > Len(string) THEN FALSE
    ELSE IF ~AtomMatches(pattern[i], string[j]) THEN FALSE
    ELSE IF i < Len(pattern) /\ pattern[i + 1] = "+"
         THEN \/ MatchFrom(pattern, i + 2, string, j + 1)
              \/ MatchFrom(pattern, i, string, j + 1)
         ELSE MatchFrom(pattern, i + 1, string, j + 1)

\* A match that must also end at the end of the string.
RECURSIVE FullMatchFrom(_, _, _, _)
FullMatchFrom(pattern, i, string, j) ==
    IF i > Len(pattern) THEN j > Len(string)
    ELSE IF j > Len(string) THEN FALSE
    ELSE IF ~AtomMatches(pattern[i], string[j]) THEN FALSE
    ELSE IF i < Len(pattern) /\ pattern[i + 1] = "+"
         THEN \/ FullMatchFrom(pattern, i + 2, string, j + 1)
              \/ FullMatchFrom(pattern, i, string, j + 1)
         ELSE FullMatchFrom(pattern, i + 1, string, j + 1)

ReFullMatch(pattern, string) == FullMatchFrom(pattern, 1, string, 1)

\* re.match(pattern, string) returns a match object (for a pattern that
\* compiles).
ReMatch(pattern, string) == MatchFrom(pattern, 1, string, 1)

----------------------------------------------------------------------------
(* compare(actual, expected, check_prefix)                                 *)

\* The next line at or after position pos + 1 that _expected_lines yields:
\* its index, or 0 when the rest of the file holds no such line.
NextPrefixed(lines, pos, prefix) ==
    LET S == {k \in (pos + 1)..Len(lines) : StartsWith(lines[k], prefix)}
    IN  IF S = {} THEN 0 ELSE CHOOSE k \in S : \A m \in S : k <= m

\* A pairing that stops at the end of the shorter sequence.
MapFinishedEither(a, e) == a = None \/ e = None

\* map(None, ...) stops once every sequence is exhausted in the same round.
MapFinished(a, e) == a = None /\ e = None

\* A loop body with the arguments of re.match exchanged.
BodySwappedArgs(actual_line, expected_line) ==
    IF actual_line = None THEN "more_expected"
    ELSE IF expected_line = None THEN "more_actual"
    ELSE IF ~ReCompiles(actual_line) THEN "re_error"
    ELSE IF ~ReMatch(actual_line, expected_line) THEN "content_mismatch"
    ELSE "match"

\* A loop body that passes over a pair padded with None.
BodyNoLengthCheck(actual_line, expected_line) ==
    IF actual_line = None \/ expected_line = None THEN "match"
    ELSE IF ~ReCompiles(expected_line) THEN "re_error"
    ELSE IF ~ReMatch(expected_line, actual_line) THEN "content_mismatch"
    ELSE "match"

\* A loop body with the two length-mismatch messages exchanged.
BodySwappedDiagnosis(actual_line, expected_line) ==
    IF actual_line = None THEN "more_actual"
    ELSE IF expected_line = None THEN "more_expected"
    ELSE IF ~ReCompiles(expected_line) THEN "re_error"
    ELSE IF ~ReMatch(expected_line, actual_line) THEN "content_mismatch"
    ELSE "match"

\* The body of compare's for loop on one pair.
Body(actual_line, expected_line) ==
    IF actual_line = None THEN "more_expected"
    ELSE IF expected_line = None THEN "more_actual"
    ELSE IF ~ReCompiles(expected_line) THEN "re_error"
    ELSE IF ~ReMatch(expected_line, actual_line) THEN "content_mismatch"
    ELSE "match"

Outcomes == {"running", "success", "more_expected", "more_actual",
             "content_mismatch", "re_error", "io_error"}

InitCompare ==
    /\ actual \in SeqUpTo(ActualLineSet, MaxActualLines)
    /\ IsFile(actual)
    /\ expected \in SeqUpTo(ExpectedLineSet, MaxExpectedLines)
    /\ IsFile(expected)
    /\ check_prefix \in CheckPrefixes
    /\ actual_readable \in BOOLEAN
    /\ expected_readable \in BOOLEAN
    /\ (~actual_readable => actual = <<>> /\ expected_readable)
    /\ (~expected_readable => expected = <<>>)
    /\ actual_f = "unopened"
    /\ expected_f = "unopened"
    /\ actual_pos = 0
    /\ expected_pos = 0
    /\ actual_stop = FALSE
    /\ expected_stop = FALSE
    /\ item = None
    /\ pairs = <<>>
    /\ idx = 1
    /\ pc = "map_actual"
    /\ outcome = "running"
    /\ err_actual = None
    /\ err_expected = None

IdleMain ==
    /\ args = <<>>
    /\ parsed_argv = <<>>
    /\ func = "none"
    /\ exit = "none"
    /\ mpc = "idle"

Init == InitCompare /\ IdleMain

\* open(path) in _actual_lines raises IOError at the generator's first
\* resumption; nothing has been opened yet.
ActualOpenFails ==
    /\ pc = "map_actual"
    /\ ~actual_stop /\ actual_f = "unopened" /\ ~actual_readable
    /\ pc' = "done"
    /\ outcome' = "io_error"
    /\ UNCHANGED <<actual, expected, check_prefix, actual_readable,
                   expected_readable, actual_f, expected_f, actual_pos,
                   expected_pos, actual_stop, expected_stop, item, pairs, idx,
                   err_actual, err_expected, mainvars>>

\* map() takes the next item of _actual_lines (None once it is exhausted).
MapActual ==
    /\ pc = "map_actual"
    /\ actual_stop \/ actual_f # "unopened" \/ actual_readable
    /\ IF actual_stop
       THEN /\ item' = None
            /\ UNCHANGED <<actual_f, actual_pos, actual_stop>>
       ELSE IF actual_pos < Len(actual)
       THEN /\ item' = actual[actual_pos + 1]
            /\ actual_pos' = actual_pos + 1
            /\ actual_f' = "open"
            /\ UNCHANGED actual_stop
       ELSE /\ item' = None
            /\ actual_f' = "closed"
            /\ actual_stop' = TRUE
            /\ UNCHANGED actual_pos
    /\ pc' = "map_expected"
    /\ UNCHANGED <<actual, expected, check_prefix, actual_readable,
                   expected_readable, expected_f, expected_pos, expected_stop,
                   pairs, idx, outcome, err_actual, err_expected, mainvars>>

\* open(path) in _expected_lines raises IOError at the generator's first
\* resumption.  _actual_lines may be suspended at its yield, inside its
\* 'with' block: compare never closes it, so its file is closed only when
\* the abandoned generator is finalized, which the language does not tie to
\* the moment the exception leaves compare.
ExpectedOpenFails ==
    /\ pc = "map_expected"
    /\ ~expected_stop /\ expected_f = "unopened" /\ ~expected_readable
    /\ pc' = "done"
    /\ outcome' = "io_error"
    /\ actual_f' \in (IF actual_f = "open" THEN {"open", "closed"}
                                            ELSE {actual_f})
    /\ UNCHANGED <<actual, expected, check_prefix, actual_readable,
                   expected_readable, expected_f, actual_pos, expected_pos,
                   actual_stop, expected_stop, item, pairs, idx, err_actual,
                   err_expected, mainvars>>

\* map() takes the next item of _expected_lines (None once it is exhausted)
\* and ends the round: it appends the pair, or returns the list when both
\* sequences are exhausted.
MapExpected ==
    /\ pc = "map_expected"
    /\ expected_stop \/ expected_f # "unopened" \/ expected_readable
    /\ LET k == NextPrefixed(expected, expected_pos, check_prefix)
           e == IF expected_stop \/ k = 0 THEN None
                ELSE StripPrefix(expected[k], check_prefix)
       IN  /\ IF expected_stop
              THEN UNCHANGED <<expected_f, expected_pos, expected_stop>>
              ELSE IF k # 0
              THEN /\ expected_pos' = k
                   /\ expected_f' = "open"
                   /\ UNCHANGED expected_stop
              ELSE /\ expected_pos' = Len(expected)
                   /\ expected_f' = "closed"
                   /\ expected_stop' = TRUE
           /\ IF MapFinished(item, e)
              THEN /\ pc' = "loop"
                   /\ UNCHANGED pairs
              ELSE /\ pairs' = Append(pairs, [actual_line |-> item,
                                              expected_line |-> e])
                   /\ pc' = "map_actual"
    /\ item' = None
    /\ UNCHANGED <<actual, expected, check_prefix, actual_readable,
                   expected_readable, actual_f, actual_pos, actual_stop, idx,
                   outcome, err_actual, err_expected, mainvars>>

\* An iteration whose error message exchanges the two reprs.
CheckPairSwappedRepr ==
    /\ pc = "loop"
    /\ idx <= Len(pairs)
    /\ LET r == Body(pairs[idx].actual_line, pairs[idx].expected_line)
       IN  IF r = "match"
           THEN /\ idx' = idx + 1
                /\ UNCHANGED <<pc, outcome, err_actual, err_expected>>
           ELSE /\ pc' = "done"
                /\ outcome' = r
                /\ err_actual' = IF r = "content_mismatch"
                                 THEN pairs[idx].expected_line ELSE None
                /\ err_expected' = IF r = "content_mismatch"
                                   THEN pairs[idx].actual_line ELSE None
                /\ UNCHANGED idx
    /\ UNCHANGED <<actual, expected, check_prefix, actual_readable,
                   expected_readable, actual_f, expected_f, actual_pos,
                   expected_pos, actual_stop, expected_stop, item, pairs,
                   mainvars>>

\* One iteration of the for loop.
CheckPair ==
    /\ pc = "loop"
    /\ idx <= Len(pairs)
    /\ LET r == Body(pairs[idx].actual_line, pairs[idx].expected_line)
       IN  IF r = "match"
           THEN /\ idx' = idx + 1
                /\ UNCHANGED <<pc, outcome, err_actual, err_expected>>
           ELSE /\ pc' = "done"
                /\ outcome' = r
                /\ err_actual' = IF r = "content_mismatch"
                                 THEN pairs[idx].actual_line ELSE None
                /\ err_expected' = IF r = "content_mismatch"
                                   THEN pairs[idx].expected_line ELSE None
                /\ UNCHANGED idx
    /\ UNCHANGED <<actual, expected, check_prefix, actual_readable,
                   expected_readable, actual_f, expected_f, actual_pos,
                   expected_pos, actual_stop, expected_stop, item, pairs,
                   mainvars>>

\* The for loop ends: compare returns None.
Return ==
    /\ pc = "loop"
    /\ idx > Len(pairs)
    /\ pc' = "done"
    /\ outcome' = "success"
    /\ UNCHANGED <<actual, expected, check_prefix, actual_readable,
                   expected_readable, actual_f, expected_f, actual_pos,
                   expected_pos, actual_stop, expected_stop, item, pairs, idx,
                   err_actual, err_expected, mainvars>>

Next ==
    \/ ActualOpenFails
    \/ MapActual
    \/ ExpectedOpenFails
    \/ MapExpected
    \/ CheckPair
    \/ Return

Spec == Init /\ [][Next]_vars

----------------------------------------------------------------------------
(* build_script.main(args): the parsers main() builds and its choice of    *)
(* the argument list it hands to them.                                     *)

\* Command-line words main() is started with.
Tokens == {"build", "test", "install", "-h", "--swiftc",
           "--foundation-build-dir", "--test", "/p"}

\* The words main() looks for before inserting the default subcommand.
KnownWords == {"build", "test", "install", "-h", "--help"}

\* The subparsers added to the parser.
Subcommands == {"build", "test", "install"}

HelpOptions == {"-h", "--help"}

\* Words argparse classifies as option strings (they start with '-').
OptionLike == {"-h", "--help", "--swiftc", "--build-dir",
               "--foundation-build-dir", "--swift-build-dir", "--arch",
               "--module-install-path", "--library-install-path",
               "--release", "--debug", "--test", "--lit", "-m", "-l"}

\* Options of each subparser that take one argument.
OneArgOptions(cmd) ==
    IF cmd = "build"
    THEN {"--swiftc", "--build-dir", "--foundation-build-dir",
          "--swift-build-dir", "--arch", "--module-install-path",
          "--library-install-path"}
    ELSE IF cmd = "test"
    THEN {"--swiftc", "--lit", "--foundation-build-dir"}
    ELSE {"-m", "--module-install-path", "-l", "--library-install-path"}

\* Options of each subparser that take no argument.
FlagOptions(cmd) ==
    IF cmd = "build" THEN {"--release", "--debug", "--test"} ELSE {}

\* Options declared required=True.
RequiredOptions(cmd) ==
    IF cmd \in {"build", "test"} THEN {"--swiftc", "--foundation-build-dir"}
    ELSE {}

\* Number of positional arguments (build_dir) of each subparser.
NumPositionals(cmd) == IF cmd = "build" THEN 0 ELSE 1

\* set_defaults(func=...)
FuncOf(cmd) ==
    IF cmd = "build" THEN "_build"
    ELSE IF cmd = "test" THEN "_test" ELSE "_install"

\* A subparser reading rest[i..]: "help" (prints help, exits 0), "error"
\* (exits 2) or "ok".  seen: the options read, npos: the positionals read,
\* extras: whether an unrecognized word was met.
RECURSIVE SubScan(_, _, _, _, _, _)
SubScan(cmd, rest, i, seen, npos, extras) ==
    IF i > Len(rest)
    THEN IF /\ RequiredOptions(cmd) \subseteq seen
            /\ npos = NumPositionals(cmd)
            /\ ~extras
         THEN "ok" ELSE "error"
    ELSE IF rest[i] \in HelpOptions THEN "help"
    ELSE IF rest[i] \in OneArgOptions(cmd)
    THEN IF i < Len(rest) /\ rest[i + 1] \notin OptionLike
         THEN SubScan(cmd, rest, i + 2, seen \cup {rest[i]}, npos, extras)
         ELSE "error"
    ELSE IF rest[i] \in FlagOptions(cmd)
    THEN SubScan(cmd, rest, i + 1, seen, npos, extras)
    ELSE IF rest[i] \in OptionLike
    THEN SubScan(cmd, rest, i + 1, seen, npos, TRUE)
    ELSE IF npos < NumPositionals(cmd)
    THEN SubScan(cmd, rest, i + 1, seen, npos + 1, extras)
    ELSE SubScan(cmd, rest, i + 1, seen, npos, TRUE)

\* The top-level parser reading argv[i..]: its only option is the help
\* option, and its first positional word selects the subparser, which reads
\* all that follows.
RECURSIVE TopScan(_, _, _)
TopScan(argv, i, extras) ==
    IF i > Len(argv) THEN [status |-> "error", func |-> "none"]
    ELSE IF argv[i] \in HelpOptions THEN [status |-> "help", func |-> "none"]
    ELSE IF argv[i] \in OptionLike THEN TopScan(argv, i + 1, TRUE)
    ELSE IF argv[i] \notin Subcommands
    THEN [status |-> "error", func |-> "none"]
    ELSE LET r == SubScan(argv[i], SubSeq(argv, i + 1, Len(argv)), 1, {}, 0,
                          FALSE)
         IN  IF r = "ok" /\ ~extras
             THEN [status |-> "ok", func |-> FuncOf(argv[i])]
             ELSE [status |-> IF r = "help" THEN "help" ELSE "error",
                   func |-> "none"]

\* parser.parse_args(args=argv)
ParseArgs(argv) == TopScan(argv, 1, FALSE)

\* any([a in ["build", "test", "install", "-h", "--help"] for a in args])
HasKnownWord(argv) == \E k \in 1..Len(argv) : argv[k] \in KnownWords

IdleCompare ==
    /\ actual = <<>>
    /\ expected = <<>>
    /\ check_prefix = <<"#">>
    /\ actual_readable = TRUE
    /\ expected_readable = TRUE
    /\ actual_f = "unopened"
    /\ expected_f = "unopened"
    /\ actual_pos = 0
    /\ expected_pos = 0
    /\ actual_stop = FALSE
    /\ expected_stop = FALSE
    /\ item = None
    /\ pairs = <<>>
    /\ idx = 1
    /\ pc = "idle"
    /\ outcome = "running"
    /\ err_actual = None
    /\ err_expected = None

InitMain ==
    /\ IdleCompare
    /\ args \in SeqUpTo(Tokens, MaxArgs)
    /\ parsed_argv = <<>>
    /\ func = "none"
    /\ exit = "none"
    /\ mpc = "start"

\* What parse_args leaves: the namespace's func, or the process exit.
Parsed(argv) ==
    LET r == ParseArgs(argv)
    IN  /\ parsed_argv' = argv
        /\ func' = r.func
        /\ exit' = IF r.status = "ok" THEN "none" ELSE r.status
        /\ mpc' = IF r.status = "ok" THEN "parsed" ELSE "exited"

\* A known word is among the arguments: they are parsed as given.
ParseGiven ==
    /\ mpc = "start"
    /\ HasKnownWord(args)
    /\ Parsed(args)
    /\ UNCHANGED <<args, cmpvars>>

\* No known word is among the arguments: 'build' is inserted.
ParseDefault ==
    /\ mpc = "start"
    /\ ~HasKnownWord(args)
    /\ Parsed(<<"build">> \o args)
    /\ UNCHANGED <<args, cmpvars>>

\* parsed_args.func(parsed_args)
Dispatch ==
    /\ mpc = "parsed"
    /\ mpc' = "done"
    /\ UNCHANGED <<args, parsed_argv, func, exit, cmpvars>>

NextMain ==
    \/ ParseGiven
    \/ ParseDefault
    \/ Dispatch

SpecMain == InitMain /\ [][NextMain]_vars

----------------------------------------------------------------------------
(* Vocabulary of the properties, stated on the inputs alone.               *)

\* line begins with p at position zero, character for character.
BeginsWith(line, p) ==
    Len(line) >= Len(p) /\ SubSeq(line, 1, Len(p)) = p

\* The expectation-file lines that begin with the check prefix, in order.
PrefixedLines == SelectSeq(expected, LAMBDA l : BeginsWith(l, check_prefix))

\* The pattern sequence: the text after the prefix of each prefixed line.
Patterns ==
    [i \in 1..Len(PrefixedLines) |->
        SubSeq(PrefixedLines[i], Len(check_prefix) + 1, Len(PrefixedLines[i]))]

NumPatterns == Len(Patterns)

Min(a, b) == IF a <= b THEN a ELSE b
Max(a, b) == IF a >= b THEN a ELSE b

\* The i-th pattern matches the i-th actual line from position zero.
Matches(i) ==
    ReCompiles(Patterns[i]) /\ ReMatch(Patterns[i], actual[i])

\* The positions that can be paired and whose pattern does not match.
Failing == {i \in 1..Min(Len(actual), NumPatterns) : ~Matches(i)}

FirstFailing == CHOOSE i \in Failing : \A j \in Failing : i <= j

Readable == actual_readable /\ expected_readable

Done == pc = "done"

LengthMismatch == {"more_expected", "more_actual"}

\* The pattern holds no regular-expression operator.
Literal(pattern) == \A k \in 1..Len(pattern) : pattern[k] \notin {".", "+"}

\* The number of patterns _expected_lines has produced so far.
Produced ==
    Cardinality({k \in 1..expected_pos : BeginsWith(expected[k], check_prefix)})

----------------------------------------------------------------------------
(* Properties of compare *)

\* C1: when the number of actual lines equals the number of prefixed lines
\* and every pattern matches its paired actual line from position zero,
\* compare returns normally (zero lines against zero patterns included).
C1_AllMatchSucceeds ==
    (/\ Done
     /\ Readable
     /\ Len(actual) = NumPatterns
     /\ \A i \in 1..NumPatterns : Matches(i))
    => outcome = "success"

C1_Witness ==
    /\ Done
    /\ Readable
    /\ Len(actual) = NumPatterns
    /\ NumPatterns >= 2
    /\ \A i \in 1..NumPatterns : Matches(i)
    /\ outcome = "success"

\* C2, as claimed: whenever the counts differ, compare ends with one of the
\* two length-mismatch errors, never with a content mismatch.
C2_CountsDifferAlwaysLength ==
    (Done /\ Readable /\ Len(actual) # NumPatterns)
    => outcome \in LengthMismatch

\* C2, amended: whenever the counts differ compare fails; the failure is a
\* length mismatch when every pair that can be formed matches, and otherwise
\* it is the failure of the first pair that does not match (a content
\* mismatch, or re.error when that pattern does not compile).
C2_CountsDifferFails ==
    (Done /\ Readable /\ Len(actual) # NumPatterns)
    => /\ outcome # "success"
       /\ (Failing = {} => outcome \in LengthMismatch)
       /\ (Failing # {} => outcome \in {"content_mismatch", "re_error"})

C2_Witness ==
    /\ Done
    /\ Readable
    /\ Len(actual) # NumPatterns
    /\ Min(Len(actual), NumPatterns) >= 1
    /\ Failing = {}
    /\ outcome \in LengthMismatch

\* C3: when every pair that can be formed matches and the counts differ,
\* fewer actual lines than patterns gives the 'more lines expected to appear
\* than there were lines in the actual input' error and more actual lines
\* than patterns gives the 'more lines than expected to appear' error.
C3_DirectionOfLengthMismatch ==
    (Done /\ Readable /\ Failing = {})
    => /\ (Len(actual) < NumPatterns => outcome = "more_expected")
       /\ (Len(actual) > NumPatterns => outcome = "more_actual")

C3_Witness ==
    /\ Done
    /\ Readable
    /\ Failing = {}
    /\ NumPatterns >= 1
    /\ Len(actual) > NumPatterns
    /\ outcome = "more_actual"

\* C4, as claimed: with equal counts and some pattern that does not match,
\* compare raises the content-mismatch error for the first such position,
\* carrying that actual line and that pattern.
C4_FirstMismatchReported ==
    (Done /\ Readable /\ Len(actual) = NumPatterns /\ Failing # {})
    => /\ outcome = "content_mismatch"
       /\ err_actual = actual[FirstFailing]
       /\ err_expected = Patterns[FirstFailing]

\* C4, amended: with equal counts and some pattern that does not match,
\* compare fails at the first such position and at no later one; when the
\* pattern there compiles the error is the content mismatch carrying exactly
\* that actual line and that pattern, and when it does not compile re.error
\* is raised there instead.
C4_FirstFailureReported ==
    (Done /\ Readable /\ Len(actual) = NumPatterns /\ Failing # {})
    => /\ idx = FirstFailing
       /\ IF ReCompiles(Patterns[FirstFailing])
          THEN /\ outcome = "content_mismatch"
               /\ err_actual = actual[FirstFailing]
               /\ err_expected = Patterns[FirstFailing]
          ELSE /\ outcome = "re_error"
               /\ err_actual = None
               /\ err_expected = None

C4_Witness ==
    /\ Done
    /\ Readable
    /\ Len(actual) = 2
    /\ NumPatterns = 2
    /\ Failing = {1, 2}
    /\ actual[1] # actual[2]
    /\ Patterns[1] # Patterns[2]
    /\ outcome = "content_mismatch"
    /\ err_actual = actual[1]
    /\ err_expected = Patterns[1]

\* What compare does as a function of the actual lines and the pattern
\* sequence alone.
Verdict ==
    IF Failing # {}
    THEN IF ReCompiles(Patterns[FirstFailing]) THEN "content_mismatch"
         ELSE "re_error"
    ELSE IF Len(actual) < NumPatterns THEN "more_expected"
    ELSE IF Len(actual) > NumPatterns THEN "more_actual"
    ELSE "success"

\* C5: lines of the expectation file that do not begin with the check
\* prefix never enter the pattern sequence: the i-th pair holds the i-th
\* actual line and the text after the prefix of the i-th prefixed line
\* (None past the end of either), so the outcome depends on the actual lines
\* and the prefixed lines only.
C5_OnlyPrefixedLinesPair ==
    LET P == Patterns
    IN  /\ \A i \in 1..Len(pairs) :
            /\ pairs[i].actual_line =
                   (IF i <= Len(actual) THEN actual[i] ELSE None)
            /\ pairs[i].expected_line =
                   (IF i <= Len(P) THEN P[i] ELSE None)
        /\ (pc = "loop" => Len(pairs) = Max(Len(actual), Len(P)))
        /\ (Done /\ Readable => outcome = Verdict)

C5_Witness ==
    /\ Done
    /\ Len(expected) = 3
    /\ BeginsWith(expected[1], check_prefix)
    /\ ~BeginsWith(expected[2], check_prefix)
    /\ BeginsWith(expected[3], check_prefix)
    /\ Len(actual) = 2
    /\ Len(pairs) = 2
    /\ outcome = "success"

\* The line's content, its terminator aside, is the check prefix alone.
PrefixOnly(line) ==
    line = check_prefix \/ line = check_prefix \o <<NL>>

\* C6, as claimed: a pair whose expectation line consists of the check
\* prefix with nothing after it never produces a content mismatch.
C6_PrefixOnlyMatchesAnyLine ==
    (Done /\ outcome = "content_mismatch")
    => ~PrefixOnly(PrefixedLines[idx])

\* C6, amended: an expectation line that is the check prefix and nothing
\* else, not even a line terminator (so the last line of its file), matches
\* any actual line.  When the prefix is followed by the line terminator the
\* terminator is the pattern, and the pair passes exactly when the actual
\* line begins with a newline.
C6_EmptyPatternOnlyWithoutTerminator ==
    /\ (Done /\ outcome = "content_mismatch")
       => /\ PrefixedLines[idx] # check_prefix
          /\ (PrefixedLines[idx] = check_prefix \o <<NL>>
              => ~BeginsWith(actual[idx], <<NL>>))
    /\ idx > 1
       => LET L == PrefixedLines
          IN  \A i \in 1..Min(idx - 1, Min(Len(actual), Len(L))) :
                  L[i] = check_prefix \o <<NL>>
                  => BeginsWith(actual[i], <<NL>>)

C6_Witness ==
    /\ pc \in {"loop", "done"}
    /\ \E i \in 1..Min(idx - 1, Min(Len(actual), NumPatterns)) :
          /\ PrefixedLines[i] = check_prefix
          /\ actual[i] = <<"a", "b", NL>>

\* The pattern without the line terminator the expectation line may end in.
PatternContent(pattern) ==
    IF Len(pattern) > 0 /\ pattern[Len(pattern)] = NL
    THEN SubSeq(pattern, 1, Len(pattern) - 1)
    ELSE pattern

\* C7, as claimed: for an expectation line 'prefix + P' with P literal text,
\* an actual line that begins with P passes the pair, whatever follows P.
C7_LiteralPrefixPasses ==
    (Done /\ outcome = "content_mismatch")
    => LET P == PatternContent(Patterns[idx])
       IN  ~(Len(P) >= 1 /\ Literal(P) /\ BeginsWith(actual[idx], P))

\* C7, amended: the match is anchored at position zero and not at the end,
\* but the pattern is all the text after the prefix, the line terminator of
\* the expectation line included: a pair with literal pattern text passes
\* exactly when the actual line begins with that text, so content after P
\* is accepted only when the expectation line has no terminator.
C7_LiteralTextWithTerminator ==
    /\ (Done /\ outcome = "content_mismatch"
          /\ Len(PatternContent(Patterns[idx])) >= 1
          /\ Literal(Patterns[idx]))
       => ~BeginsWith(actual[idx], Patterns[idx])
    /\ idx > 1
       => LET P == Patterns
          IN  \A i \in 1..Min(idx - 1, Min(Len(actual), Len(P))) :
                  (Len(PatternContent(P[i])) >= 1 /\ Literal(P[i]))
                  => BeginsWith(actual[i], P[i])

C7_Witness ==
    /\ pc \in {"loop", "done"}
    /\ \E i \in 1..Min(idx - 1, Min(Len(actual), NumPatterns)) :
          /\ PrefixedLines[i] = check_prefix \o <<"a">>
          /\ actual[i] = <<"a", "b", NL>>

\* C9, as claimed: while the pair at position idx is being checked, no more
\* than idx lines have been read from the actual file and no more than idx
\* patterns have been produced from the expectation file.
C9_ReadsLazily ==
    (pc = "loop" /\ idx <= Len(pairs))
    => (actual_pos <= idx /\ Produced <= idx)

\* C9, amended: map(None, ...) takes one item from each sequence per round
\* until both are exhausted and only then hands the list of pairs to the
\* loop: whenever a pair is checked, and whenever compare has returned or
\* raised from the loop, both files have been read to their end and closed,
\* so a failure does not shorten the reading and no line is read after it.
C9_ReadsEverythingFirst ==
    /\ (pc = "map_actual")
       => /\ actual_pos = Min(Len(pairs), Len(actual))
          /\ Produced = Min(Len(pairs), NumPatterns)
    /\ (pc = "loop" \/ (Done /\ outcome # "io_error"))
       => /\ actual_pos = Len(actual)
          /\ expected_pos = Len(expected)
          /\ actual_f = "closed"
          /\ expected_f = "closed"

C9_Witness ==
    /\ Done
    /\ outcome = "content_mismatch"
    /\ idx = 1
    /\ Len(actual) = 2
    /\ actual_pos = 2
    /\ NumPatterns >= 2
    /\ expected_pos = Len(expected)

----------------------------------------------------------------------------
(* Property of build_script.main *)

\* C8: when the first argument is none of 'build', 'test', 'install' and no
\* help option is given, the arguments are parsed as if 'build' had been
\* prepended, and the function dispatched is _build.
C8_BuildIsDefault ==
    (/\ mpc \in {"parsed", "exited", "done"}
     /\ \A k \in 1..Len(args) : args[k] \notin HelpOptions
     /\ (args = <<>> \/ args[1] \notin Subcommands))
    => /\ parsed_argv = <<"build">> \o args
       /\ (mpc = "done" => func = "_build")

====
